---- MODULE Spec2Model ----
(***************************************************************************)
(* Model of oddio's Smoothed<f32> (src/src/smooth.rs): a value that ramps  *)
(* linearly from `prev` to `next` as `progress` goes from 0 to 1.          *)
(*                                                                         *)
(* An f32 is modelled as an IEEE-754 value: a finite value is a sign bit   *)
(* and a reduced fraction n/d (so +0.0 and -0.0 are distinct), and the     *)
(* special values +inf, -inf and NaN follow the IEEE rules for +, -, *, /, *)
(* <, == and Rust's f32::min.                                              *)
(*                                                                         *)
(* Spec and SpecRepeat (the Smoothed state machine and the test            *)
(* repeated_set) compute without rounding; the inputs they use are small   *)
(* dyadic numbers, for which the f32 operations of every scenario reported *)
(* are exact.  SpecF32 calls the functions of impl Interpolate for f32 on  *)
(* their own and rounds every result to the 24-bit significand of an f32   *)
(* (F32Round).                                                             *)
(***************************************************************************)
EXTENDS Integers, Sequences, FiniteSets, TLC

VARIABLES prev, next, progress,
          steps, lastOp, branch, wasSettled, before, obs, divisor, cum, lastArg, doc,
          v0, lx, lp, iter, pc,
          fn, args, ret

\* prev, next, progress: the fields of the Smoothed<f32>.
\* What the caller has done and seen:
\*   steps    number of calls made
\*   lastOp   the last call: "new", "set" or "advance"
\*   lastArg  the value passed to the last new or set
\*   branch   the branch the last set took: "same", "reset" ("none" before)
\*   wasSettled  whether the last set was called on a settled instance
\*            (progress = 1.0 and get() = next)
\*   before   get() right before the last set (after new: get())
\*   obs      get() right after the last call
\*   divisor  the divisor of the last set that took the "same" branch
\*   cum      sum of the advance proportions since the last set or new
\*   doc      position in the documented example
\*   v0, lx, lp, iter, pc   the caller of the test repeated_set
\* A call of a function of impl Interpolate for f32 on its own:
\*   fn, args, ret   the function, its arguments, the value returned
vars == <<prev, next, progress,
          steps, lastOp, branch, wasSettled, before, obs, divisor, cum, lastArg, doc,
          v0, lx, lp, iter, pc,
          fn, args, ret>>

(***************************************************************************)
(* Bounds                                                                  *)
(***************************************************************************)
MaxSteps == 6
MaxIter == 5
MaxPrefix == 3

(***************************************************************************)
(* f32                                                                     *)
(***************************************************************************)
RECURSIVE Gcd(_, _)
Gcd(a, b) == IF b = 0 THEN a ELSE Gcd(b, a % b)

NaN == [k |-> "nan", s |-> 0, n |-> 0, d |-> 1]
Inf(s) == [k |-> "inf", s |-> s, n |-> 0, d |-> 1]
Fin(s, n, d) == LET g == Gcd(n, d) IN [k |-> "fin", s |-> s, n |-> n \div g, d |-> d \div g]

\* the f32 literal n/d, and the literal -0.0
Q(n, d) == IF n < 0 THEN Fin(1, -n, d) ELSE Fin(0, n, d)
NegZero == Fin(1, 0, 1)
Zero == Q(0, 1)
One == Q(1, 1)

IsNaN(x) == x.k = "nan"
IsInf(x) == x.k = "inf"
IsFin(x) == x.k = "fin"
IsZero(x) == x.k = "fin" /\ x.n = 0
Num(x) == IF x.s = 1 THEN -x.n ELSE x.n
Xor(a, b) == IF a = b THEN 0 ELSE 1

FNeg(x) == IF IsNaN(x) THEN NaN ELSE [x EXCEPT !.s = 1 - x.s]

FAdd(a, b) ==
    IF IsNaN(a) \/ IsNaN(b) THEN NaN
    ELSE IF IsInf(a) /\ IsInf(b) THEN (IF a.s = b.s THEN a ELSE NaN)
    ELSE IF IsInf(a) THEN a
    ELSE IF IsInf(b) THEN b
    ELSE LET g == Gcd(a.d, b.d)
             num == Num(a) * (b.d \div g) + Num(b) * (a.d \div g)
             den == (a.d \div g) * b.d
         IN  IF num = 0
             THEN (IF IsZero(a) /\ IsZero(b) /\ a.s = 1 /\ b.s = 1 THEN NegZero ELSE Zero)
             ELSE Q(num, den)

FSub(a, b) == FAdd(a, FNeg(b))

FMul(a, b) ==
    IF IsNaN(a) \/ IsNaN(b) THEN NaN
    ELSE IF (IsInf(a) /\ IsZero(b)) \/ (IsZero(a) /\ IsInf(b)) THEN NaN
    ELSE IF IsInf(a) \/ IsInf(b) THEN Inf(Xor(a.s, b.s))
    ELSE Fin(Xor(a.s, b.s), a.n * b.n, a.d * b.d)

FDiv(a, b) ==
    IF IsNaN(a) \/ IsNaN(b) THEN NaN
    ELSE IF IsInf(a) /\ IsInf(b) THEN NaN
    ELSE IF IsInf(a) THEN Inf(Xor(a.s, b.s))
    ELSE IF IsInf(b) THEN Fin(Xor(a.s, b.s), 0, 1)
    ELSE IF IsZero(b) THEN (IF IsZero(a) THEN NaN ELSE Inf(Xor(a.s, b.s)))
    ELSE Fin(Xor(a.s, b.s), a.n * b.d, a.d * b.n)

\* IEEE comparisons: every comparison with NaN is false, -0.0 == +0.0
FLt(a, b) ==
    IF IsNaN(a) \/ IsNaN(b) THEN FALSE
    ELSE IF IsInf(a) THEN a.s = 1 /\ ~(IsInf(b) /\ b.s = 1)
    ELSE IF IsInf(b) THEN b.s = 0
    ELSE LET g == Gcd(a.d, b.d)
         IN  Num(a) * (b.d \div g) < Num(b) * (a.d \div g)

FEq(a, b) ==
    IF IsNaN(a) \/ IsNaN(b) THEN FALSE
    ELSE IF IsInf(a) \/ IsInf(b) THEN IsInf(a) /\ IsInf(b) /\ a.s = b.s
    ELSE Num(a) = Num(b) /\ a.d = b.d

FLe(a, b) == FLt(a, b) \/ FEq(a, b)

\* f32::min: a NaN operand is ignored
FMin(a, b) ==
    IF IsNaN(a) THEN b
    ELSE IF IsNaN(b) THEN a
    ELSE IF FLt(b, a) THEN b ELSE a

FAbs(x) == IF IsNaN(x) THEN NaN ELSE [x EXCEPT !.s = 0]

\* Rounding.  An f32 has a 24-bit significand: a dyadic n/d in lowest terms
\* is an f32 iff n < 2^24 (exponent range aside).  F32Round(x) is the f32
\* nearest to a dyadic x, ties to the even significand: the result of the
\* f32 operation whose exact result is x.
F32Limit == 2^24

\* the least power of two q >= u with n \div q < 2^24
RECURSIVE RoundUnit(_, _)
RoundUnit(n, u) == IF n \div u < F32Limit THEN u ELSE RoundUnit(n, 2 * u)

F32Round(x) ==
    IF ~IsFin(x) \/ x.n < F32Limit THEN x
    ELSE LET q == RoundUnit(x.n, 2)
             m == x.n \div q
             r == x.n % q
             up == (2 * r > q) \/ (2 * r = q /\ m % 2 = 1)
             mm == IF up THEN m + 1 ELSE m
         IN  IF x.d >= q THEN Fin(x.s, mm, x.d \div q)
                         ELSE Fin(x.s, mm * (q \div x.d), 1)

(***************************************************************************)
(* impl Interpolate for f32                                                *)
(***************************************************************************)
interpolate(self, other, t) ==
    LET diff == FSub(other, self)
    IN  FAdd(self, FMul(t, diff))

\* interpolate with the result of each f32 operation rounded
interpolate_f32(self, other, t) ==
    LET diff == F32Round(FSub(other, self))
    IN  F32Round(FAdd(self, F32Round(FMul(t, diff))))

\* is_sign_positive tests the sign bit; the sign bit of a NaN is not
\* determined by the language, so both outcomes are possible for a NaN.
\* sign as a comparison with 0.0
sign_byComparison(self) ==
    IF IsNaN(self) THEN {1, -1}
    ELSE IF FLe(Zero, self) THEN {1} ELSE {-1}

sign(self) ==
    IF IsNaN(self) THEN {1, -1}
    ELSE IF self.s = 0 THEN {1} ELSE {-1}

to_f32(self) == self

(***************************************************************************)
(* impl Smoothed<f32>: operations on a record [prev, next, progress]       *)
(***************************************************************************)
\* new that leaves the instance at the start of a ramp
new_unsettled(x) == [prev |-> x, next |-> x, progress |-> Zero]

new(x) == [prev |-> x, next |-> x, progress |-> One]

\* advance without the clamp to 1.0
advance_unclamped(self, proportion) ==
    [self EXCEPT !.progress = FAdd(self.progress, proportion)]

advance(self, proportion) ==
    [self EXCEPT !.progress = FMin(FAdd(self.progress, proportion), One)]

get(self) == interpolate(self.prev, self.next, self.progress)

target(self) == self.next

\* the condition of the `if` in set; s1 and s2 are the results of the two
\* sign() calls
SameDirection(self, s1, s2) == FLt(self.progress, One) /\ s1 = s2

\* the `if` branch of set without the assignment to next
SetSame_keepNext(self, value) ==
    LET current == get(self)
    IN  [prev |-> self.prev,
         next |-> self.next,
         progress |-> to_f32(FDiv(FSub(current, self.prev), FSub(value, current)))]

\* the `if` branch of set dividing by the length of the new segment
SetSame_overSegment(self, value) ==
    LET current == get(self)
    IN  [prev |-> self.prev,
         next |-> value,
         progress |-> to_f32(FDiv(FSub(current, self.prev), FSub(value, self.prev)))]

\* the `if` branch of set
SetSame(self, value) ==
    LET current == get(self)
    IN  [prev |-> self.prev,
         next |-> value,
         progress |-> to_f32(FDiv(FSub(current, self.prev), FSub(value, current)))]

\* the `else` branch of set without the assignment to prev
SetReset_keepPrev(self, value) ==
    [prev |-> self.prev, next |-> value, progress |-> Zero]

\* the `else` branch of set
SetReset(self, value) ==
    [prev |-> get(self), next |-> value, progress |-> Zero]

set(self, value, s1, s2) ==
    IF SameDirection(self, s1, s2) THEN SetSame(self, value) ELSE SetReset(self, value)

\* the divisor of the division set performs in its `if` branch
SetDivisor(self, value) == FSub(value, get(self))

(***************************************************************************)
(* Inputs                                                                  *)
(***************************************************************************)
Values == {Zero, NegZero, Q(1, 2), One, Q(3, 2)}
Proportions == {Zero, Q(1, 4), Q(1, 2), One}
PositiveProportions == {p \in Proportions : FLt(Zero, p)}

(***************************************************************************)
(* The documented example (doc comment of Smoothed): the calls after       *)
(* Smoothed::new(0.0), and the value of get() the example states after     *)
(* new and after each call.                                                *)
(***************************************************************************)
DocCalls == << <<"set", One>>, <<"advance", Q(1, 2)>>, <<"set", Q(3, 2)>>,
               <<"advance", Q(1, 2)>>, <<"advance", Q(1, 2)>>, <<"advance", Q(1, 2)>> >>
DocValues == << Zero, Zero, Q(1, 2), Q(1, 2), One, Q(3, 2), Q(3, 2) >>

\* doc = k >= 0: the calls so far are exactly new(0.0) and the first k
\* calls of the example; doc = -1: the run has left the example
DocNext(op, arg) ==
    IF doc >= 0 /\ doc < Len(DocCalls) /\ DocCalls[doc + 1] = <<op, arg>>
    THEN doc + 1 ELSE -1

(***************************************************************************)
(* State machine                                                           *)
(***************************************************************************)
Me == [prev |-> prev, next |-> next, progress |-> progress]

\* cumulative advance proportion since the last set, saturating at 1
CumNext(p) == FMin(FAdd(cum, p), One)

Construct(x) ==
    /\ prev = new(x).prev
    /\ next = new(x).next
    /\ progress = new(x).progress
    /\ steps = 0
    /\ lastOp = "new"
    /\ branch = "none"
    /\ wasSettled = FALSE
    /\ before = get(new(x))
    /\ obs = get(new(x))
    /\ divisor = One
    /\ cum = Zero
    /\ lastArg = x
    /\ doc = IF x = Zero THEN 0 ELSE -1

DoSet(value, s1, s2) ==
    LET after == set(Me, value, s1, s2)
    IN  /\ prev' = after.prev
        /\ next' = after.next
        /\ progress' = after.progress
        /\ steps' = steps + 1
        /\ lastOp' = "set"
        /\ branch' = IF SameDirection(Me, s1, s2) THEN "same" ELSE "reset"
        /\ wasSettled' = (progress = One /\ FEq(get(Me), next))
        /\ before' = get(Me)
        /\ obs' = get(after)
        /\ divisor' = IF SameDirection(Me, s1, s2) THEN SetDivisor(Me, value) ELSE One
        /\ cum' = Zero
        /\ lastArg' = value
        /\ doc' = DocNext("set", value)

\* advance(p), the count of calls aside
Advanced(p) ==
    LET after == advance(Me, p)
    IN  /\ prev' = after.prev
        /\ next' = after.next
        /\ progress' = after.progress
        /\ lastOp' = "advance"
        /\ obs' = get(after)
        /\ cum' = CumNext(p)
        /\ doc' = DocNext("advance", p)
        /\ UNCHANGED <<branch, wasSettled, before, divisor, lastArg>>

DoAdvance(p) == Advanced(p) /\ steps' = steps + 1

\* no function of impl Interpolate is called on its own
NoCall == fn = "none" /\ args = <<>> /\ ret = Zero

\* any caller: new(x), then set and advance in any order
Init ==
    /\ \E x \in Values : Construct(x) /\ v0 = x /\ lx = x
    /\ lp = Zero
    /\ iter = 0
    /\ pc = "free"
    /\ NoCall

Set ==
    /\ steps < MaxSteps
    /\ \E value \in Values :
         \E s1 \in sign(FSub(value, get(Me))), s2 \in sign(FSub(value, prev)) :
            DoSet(value, s1, s2)
    /\ UNCHANGED <<v0, lx, lp, iter, pc, fn, args, ret>>

Advance ==
    /\ steps < MaxSteps
    /\ \E p \in Proportions : DoAdvance(p)
    /\ UNCHANGED <<v0, lx, lp, iter, pc, fn, args, ret>>

Next == Set \/ Advance

Spec == Init /\ [][Next]_vars

\* the caller of the test repeated_set: new(v0), then a loop of set(lx);
\* advance(lp) with the same lx and lp in every iteration
InitRepeat ==
    /\ \E x \in Values, y \in Values :
         /\ ~FEq(x, y)
         /\ Construct(x) /\ v0 = x /\ lx = y
    /\ lp \in PositiveProportions
    /\ iter = 0
    /\ pc = "set"
    /\ NoCall

RepeatedSet ==
    /\ pc = "set"
    /\ iter < MaxIter
    /\ \E s1 \in sign(FSub(lx, get(Me))), s2 \in sign(FSub(lx, prev)) :
          DoSet(lx, s1, s2)
    /\ pc' = "advance"
    /\ UNCHANGED <<v0, lx, lp, iter, fn, args, ret>>

RepeatedAdvance ==
    /\ pc = "advance"
    /\ DoAdvance(lp)
    /\ pc' = "set"
    /\ iter' = iter + 1
    /\ UNCHANGED <<v0, lx, lp, fn, args, ret>>

NextRepeat == RepeatedSet \/ RepeatedAdvance

SpecRepeat == InitRepeat /\ [][NextRepeat]_vars

\* A caller that, after at most MaxPrefix calls (counted in steps), calls
\* advance(lp) with one lp > 0 for ever and never calls set again.  iter is
\* the parity of the number of these advance calls.
PrefixSet == pc = "free" /\ steps < MaxPrefix /\ Set

PrefixAdvance == pc = "free" /\ steps < MaxPrefix /\ Advance

StartRamp ==
    /\ pc = "free"
    /\ lp' \in PositiveProportions
    /\ pc' = "ramp"
    /\ UNCHANGED <<prev, next, progress, steps, lastOp, branch, wasSettled, before, obs,
                   divisor, cum, lastArg, doc, v0, lx, iter, fn, args, ret>>

Ramp ==
    /\ pc = "ramp"
    /\ Advanced(lp)
    /\ iter' = 1 - iter
    /\ UNCHANGED <<steps, v0, lx, lp, pc, fn, args, ret>>

NextRamp == PrefixSet \/ PrefixAdvance \/ StartRamp \/ Ramp

\* The caller of the ramp never stops calling: weak fairness of Ramp.  The
\* steps that change iter with pc = "ramp" are exactly the Ramp steps.
RampCall == pc = "ramp" /\ iter' = 1 - iter

SpecRamp == Init /\ [][NextRamp]_vars /\ WF_iter(RampCall)

\* A caller of the functions of impl Interpolate for f32 on their own:
\* interpolate(a, b, t) on f32 values a and b whose difference does not fit
\* 24 bits for some pairs, and sign(delta).
F32Samples == {Zero, NegZero, Q(1, 2^25), Q(13421773, 2^27), Q(1, 2), One, Q(3, 2), Q(3, 1)}
Fractions == {Zero, Q(1, 2), One}
Deltas == {Zero, NegZero, Q(1, 2^25), Q(-1, 2^25), Q(1, 2), Q(-1, 2), One, Q(-1, 1),
           Q(3, 1), Q(-3, 1), Inf(0), Inf(1), NaN}

InitF32 ==
    /\ Construct(Zero) /\ v0 = Zero /\ lx = Zero
    /\ lp = Zero
    /\ iter = 0
    /\ pc = "call"
    /\ \/ fn = "interpolate" /\ args \in F32Samples \X F32Samples \X Fractions
       \/ fn = "sign" /\ args \in {<<x>> : x \in Deltas}
    /\ ret = Zero

CallInterpolate ==
    /\ pc = "call" /\ fn = "interpolate"
    /\ ret' = interpolate_f32(args[1], args[2], args[3])
    /\ pc' = "return"
    /\ UNCHANGED <<prev, next, progress, steps, lastOp, branch, wasSettled, before, obs,
                   divisor, cum, lastArg, doc, v0, lx, lp, iter, fn, args>>

CallSign ==
    /\ pc = "call" /\ fn = "sign"
    /\ ret' \in sign(args[1])
    /\ pc' = "return"
    /\ UNCHANGED <<prev, next, progress, steps, lastOp, branch, wasSettled, before, obs,
                   divisor, cum, lastArg, doc, v0, lx, lp, iter, fn, args>>

NextF32 == CallInterpolate \/ CallSign

SpecF32 == InitF32 /\ [][NextF32]_vars

(***************************************************************************)
(* Properties                                                              *)
(***************************************************************************)
\* v lies between a and b, inclusive
Between(a, v, b) == (FLe(a, v) /\ FLe(v, b)) \/ (FLe(b, v) /\ FLe(v, a))
Dist(a, b) == FAbs(FSub(a, b))

\* C1 (no-jump): right after any set(x), get() equals the value get()
\* returned right before that call, whichever branch set took.
C1_NoJump == lastOp = "set" => FEq(obs, before)

\* C2: after new and any sequence of set and advance(p) calls with p >= 0,
\* 0 <= progress <= 1.
C2_ProgressInUnitInterval == FLe(Zero, progress) /\ FLe(progress, One)

\* C3 (terminal exactness): once the advance calls since the last set (or
\* since new) add up to 1.0 or more, get() equals target().
C3_TerminalExactness == FLe(One, cum) => FEq(get(Me), target(Me))

\* C4 (monotonic convergence): after a set(x), the value of get() right
\* after the set and after each following advance lies between the value
\* observed just before the set and x, and no advance moves it away from x.
C4_MonotonicNoOvershoot ==
    [][ /\ lastOp' \in {"set", "advance"} => Between(before', obs', next')
        /\ (lastOp \in {"set", "advance"} /\ lastOp' = "advance")
              => FLe(Dist(obs', next'), Dist(obs, next)) ]_vars

\* C5 (documented scenario): along new(0.0), set(1.0), advance(0.5),
\* set(1.5), advance(0.5), advance(0.5), advance(0.5), get() is 0.0, 0.0,
\* 0.5, 0.5, 1.0, 1.5, 1.5.
C5_DocumentedScenario == doc >= 0 => FEq(get(Me), DocValues[doc + 1])

C7_IdempotentSettle ==
    [][ (progress = One /\ lastOp' = "advance")
          => /\ prev' = prev /\ next' = next /\ progress' = progress
             /\ obs' = obs /\ FEq(obs', next') ]_vars

\* C8: whenever set takes its same-direction branch, the divisor
\* (value - current) of its division is not zero.
C8_DivisorNonZero == (lastOp = "set" /\ branch = "same") => ~IsZero(divisor)

\* C9: right after new(x), prev = next = x, progress = 1.0, get() = x and
\* target() = x.
C9_ConstructSettled ==
    lastOp = "new" => /\ prev = lastArg /\ next = lastArg /\ progress = One
                      /\ FEq(get(Me), lastArg) /\ target(Me) = lastArg

C9_Witness == lastOp = "new" /\ steps = 0 /\ lastArg = Q(3, 2) /\ FEq(get(Me), Q(3, 2))

\* C10: target() is the value passed to the most recent set, or to new if
\* set was never called, whatever branch set took and however many
\* advance calls followed.
C10_TargetIsLastSet == target(Me) = lastArg

\* target() read after a set(1.5) that took the same-direction branch and an
\* advance that followed it
C10_WitnessSame == lastOp = "advance" /\ branch = "same" /\ target(Me) = Q(3, 2) /\ ~FEq(before, Q(3, 2))

\* C11: advance(p) sets progress to min(progress + p, 1.0) and leaves prev
\* and next unchanged, so that with p >= 0 no advance lowers progress.
C11_AdvanceFrame ==
    [][ lastOp' = "advance" /\ steps' = steps + 1
          => /\ \E p \in Proportions : progress' = FMin(FAdd(progress, p), One)
             /\ prev' = prev /\ next' = next
             /\ FLe(progress, progress') ]_vars

\* the two sign() results are equal (differ) whatever sign bit a NaN has
SameSign(a, b) == \A s1 \in sign(a), s2 \in sign(b) : s1 = s2
DifferentSign(a, b) == \A s1 \in sign(a), s2 \in sign(b) : s1 # s2

C13_ResetBranch ==
    [][ ( /\ lastOp' = "set"
          /\ \/ FLe(One, progress)
             \/ DifferentSign(FSub(lastArg', obs), FSub(lastArg', prev)) )
          => /\ branch' = "reset"
             /\ prev' = obs
             /\ next' = lastArg'
             /\ progress' = Zero
             /\ FEq(obs', obs) ]_vars

\* C14: set takes its same-direction branch only for a retarget further in
\* the direction of travel: when it takes that branch from a state with
\* prev != next, value - current has the sign of next - prev (next being
\* the old target); and a set whose value lies on the other side of the
\* current value than the old target takes the reset branch.
C14_SameBranchOnlyForward ==
    [][ lastOp' = "set"
          => /\ (branch' = "same" /\ ~FEq(prev, next))
                  => SameSign(FSub(lastArg', obs), FSub(next, prev))
             /\ ( \/ (FLt(lastArg', obs) /\ FLt(obs, next))
                  \/ (FLt(next, obs) /\ FLt(obs, lastArg')) )
                  => branch' = "reset" ]_vars

\* C15: in every state with progress >= 1.0, get() returns exactly next,
\* also right after a set and before any advance.
C15_SettledGetIsNext == FLe(One, progress) => FEq(get(Me), next)

\* C16: get() is interpolate(prev, next, progress), and interpolate is
\* exact at the endpoints: interpolate(a, b, 0) = a and
\* interpolate(a, b, 1) = b for all a and b.
C16_InterpolateEndpoints ==
    /\ obs = interpolate(prev, next, progress)
    /\ (fn = "interpolate" /\ pc = "return")
          => /\ args[3] = Zero => FEq(ret, args[1])
             /\ args[3] = One => FEq(ret, args[2])

C19_LastSetWins ==
    [][ ( /\ lastOp = "set" /\ wasSettled
          /\ lastOp' = "set"
          /\ ~FEq(lastArg', before) )
          => /\ prev' = before
             /\ next' = lastArg'
             /\ FEq(progress', Zero)
             /\ FEq(obs', before) ]_vars

\* new(1.0); set(a); set(1.5)
C19_Witness ==
    /\ steps = 2 /\ lastOp = "set" /\ branch = "same"
    /\ v0 = One /\ prev = One /\ next = Q(3, 2)
    /\ FEq(progress, Zero) /\ FEq(obs, One)

\* C18 (liveness): when advance(p) is called again and again with one
\* p > 0 and set is not called again, the instance eventually is settled
\* (progress = 1.0 and get() = target()) and stays settled.
C18_EventuallySettled ==
    (pc = "ramp") ~> [](progress = One /\ FEq(obs, target(Me)))
====
